---- MODULE Spec2Model ----
(***************************************************************************)
(* Model of the PlayPath JavaScript SDK (src/playpath-sdk.js): the         *)
(* transport (_request), the resource clients (ragChat, item CRUD) and the *)
(* chat session returned by createChatSession.                             *)
(*                                                                         *)
(* An async operation takes two steps: the synchronous part up to the      *)
(* await of fetch (validation, payload, the fetch call), and the           *)
(* continuation that runs when fetch settles.  Several calls may be        *)
(* pending at once and their responses arrive in any order.                *)
(***************************************************************************)
EXTENDS Integers, Sequences, FiniteSets, TLC

(***************************************************************************)
(* Bounds of the model.                                                    *)
(***************************************************************************)
\* async SDK calls made in one behaviour
MaxCalls == 2
\* chat sessions created in one behaviour
MaxSessions == 2
\* writes the caller makes through an array returned by getHistory
MaxTamper == 1
\* calls awaiting fetch at one time, where the resource clients are exercised
MaxInFlight == 1
\* elements of the list given to formatChatHistory
MaxMessages == 2

(***************************************************************************)
(* JavaScript values.  Every value is a record tagged by its type, so that *)
(* undefined, null, "" and an absent property stay distinct.               *)
(***************************************************************************)
Undefined == [t |-> "undefined"]
Null == [t |-> "null"]
Str(s) == [t |-> "string", s |-> s]
Num(n) == [t |-> "number", n |-> n]
\* f: the object's own properties, a function from property names to values
Obj(f) == [t |-> "object", f |-> f]
Arr(a) == [t |-> "array", a |-> a]
\* a native error (TypeError, SyntaxError): name and message
NativeError(name, message) == [t |-> "error", name |-> name, message |-> Str(message)]

\* JavaScript truthiness, as used by !x, x || y and if (x)
Truthy(v) ==
    /\ v.t \notin {"undefined", "null"}
    /\ v # Str("")
    /\ v # Num(0)

\* reading a property of undefined or null throws a TypeError
HasProps(v) == v.t \notin {"undefined", "null"}

\* v[k] for a value that has properties: an absent property reads undefined
Get(v, k) == IF v.t = "object" /\ k \in DOMAIN v.f THEN v.f[k] ELSE Undefined

\* the TypeError of reading property k of undefined or null
PropTypeError(v, k) ==
    NativeError("TypeError",
        "Cannot read properties of " \o v.t \o " (reading '" \o k \o "')")

\* String(v), for the values that reach a template literal or Error(message)
ToStringJS(v) ==
    CASE v.t = "string" -> v.s
      [] v.t = "number" -> ToString(v.n)
      [] OTHER -> v.t

\* the outcome of evaluating code: a value, or a thrown error
Ok(v) == [ok |-> TRUE, v |-> v]
Throw(e) == [ok |-> FALSE, v |-> e]

\* placeholder in records for "no such part"
None == [t |-> "none"]

(***************************************************************************)
(* Error model.                                                            *)
(***************************************************************************)
\* new PlayPathError(message, status, data); Error(message) keeps
\* String(message)
PlayPathError(message, status, data) ==
    [t |-> "error", name |-> "PlayPathError",
     message |-> Str(ToStringJS(message)), status |-> status, data |-> data]

\* error instanceof PlayPathError
InstanceOfPlayPathError(e) == e.t = "error" /\ e.name = "PlayPathError"

(***************************************************************************)
(* JSON.  A response body is the text the server sent; response.json()     *)
(* parses it or throws a SyntaxError.  JSON.stringify is modelled by the   *)
(* JSON value its text denotes: it drops the properties of an object whose *)
(* value is undefined and writes null for an undefined array element.      *)
(***************************************************************************)
\* the response bodies the server may send
BodyTexts ==
    { "<html>Bad Gateway</html>",
      "null",
      "7",
      "{}",
      "{\"reply\":\"hello\",\"usage\":3}",
      "{\"error\":\"not found\"}",
      "{\"error\":\"\"}" }

\* response.json() on a body text
JSONparse(text) ==
    CASE text = "null" -> Ok(Null)
      [] text = "7" -> Ok(Num(7))
      [] text = "{}" -> Ok(Obj(<<>>))
      [] text = "{\"reply\":\"hello\",\"usage\":3}" ->
            Ok(Obj([reply |-> Str("hello"), usage |-> Num(3)]))
      [] text = "{\"error\":\"not found\"}" -> Ok(Obj([error |-> Str("not found")]))
      [] text = "{\"error\":\"\"}" -> Ok(Obj([error |-> Str("")]))
      [] OTHER -> Throw(NativeError("SyntaxError", "Unexpected token < in JSON at position 0"))

RECURSIVE JSONstringify(_)
\* JSON.stringify(v), as the JSON value of the text it produces
JSONstringify(v) ==
    CASE v.t = "object" ->
            Obj([k \in {j \in DOMAIN v.f : v.f[j] # Undefined} |-> JSONstringify(v.f[k])])
      [] v.t = "array" ->
            Arr([i \in DOMAIN v.a |->
                    IF v.a[i] = Undefined THEN Null ELSE JSONstringify(v.a[i])])
      [] OTHER -> v

(***************************************************************************)
(* Client configuration: the baseUrl, apiKey and headers of an instance.   *)
(* An object's properties are a function from names to values; a spread    *)
(* copies the own properties of an object and nothing of undefined or null.*)
(***************************************************************************)
\* a || b
Or(a, b) == IF Truthy(a) THEN a ELSE b

\* the own properties { ...v } copies
PropsOf(v) == IF v.t = "object" THEN v.f ELSE <<>>

\* { ...a, ...b }: the properties of a, replaced or followed by those of b
SpreadProps(a, b) ==
    [k \in DOMAIN a \cup DOMAIN b |-> IF k \in DOMAIN b THEN b[k] ELSE a[k]]

\* new PlayPathSDK(config)
constructor(config) ==
    LET apiKey == Or(Get(config, "apiKey"), Str(""))
        headers == SpreadProps("Content-Type" :> Str("application/json"),
                               PropsOf(Get(config, "headers")))
    IN [baseUrl |-> Or(Get(config, "baseUrl"), Str("")),
        apiKey |-> apiKey,
        headers |-> IF Truthy(apiKey)
                    THEN SpreadProps(headers, "X-Api-Key" :> apiKey)
                    ELSE headers]

\* a setApiKey that records the key and leaves the headers alone
setApiKeyFieldOnly(this, apiKey) == [this EXCEPT !.apiKey = apiKey]

\* setApiKey: this.apiKey = apiKey; this.headers['X-Api-Key'] = apiKey
setApiKey(this, apiKey) ==
    [this EXCEPT !.apiKey = apiKey,
                 !.headers = SpreadProps(@, "X-Api-Key" :> apiKey)]

\* setBaseUrl: this.baseUrl = baseUrl
setBaseUrl(this, baseUrl) == [this EXCEPT !.baseUrl = baseUrl]

(***************************************************************************)
(* Transport: _request.                                                    *)
(***************************************************************************)
\* a url that leaves the base address out
requestUrlRelative(this, endpoint) == Str(endpoint)

\* const url = `${this.baseUrl}${endpoint}`
requestUrl(this, endpoint) == Str(ToStringJS(this.baseUrl) \o endpoint)

\* const config = { headers: { ...this.headers, ...options.headers },
\*                  ...options }: the properties of options come last, and
\* a headers property among them replaces the merged headers
requestConfig(this, options) ==
    SpreadProps("headers" :> Obj(SpreadProps(this.headers,
                                             PropsOf(Get(options, "headers")))),
                PropsOf(options))

\* the arguments of fetch(url, config)
fetchArguments(this, endpoint, options) ==
    [url |-> requestUrl(this, endpoint), config |-> requestConfig(this, options)]

\* what fetch does with a request: it rejects (no response obtained), or
\* resolves with a response carrying a status code and a body text
Statuses == {200, 404}
FetchRejects == [rejects |-> TRUE, error |-> NativeError("TypeError", "fetch failed")]
FetchResponse(status, body) == [rejects |-> FALSE, status |-> status, body |-> body]
Outcomes == {FetchRejects} \cup {FetchResponse(s, b) : s \in Statuses, b \in BodyTexts}
\* the outcomes that differ for a chat session: no response, a reply, a body
\* without a reply, a null body, an HTTP error
SessionOutcomes ==
    { FetchRejects,
      FetchResponse(200, "{\"reply\":\"hello\",\"usage\":3}"),
      FetchResponse(200, "{}"),
      FetchResponse(200, "null"),
      FetchResponse(404, "{\"error\":\"not found\"}") }

\* response.ok
ResponseOk(status) == status >= 200 /\ status <= 299

\* the request _request hands to fetch: endpoint, and the options' method and
\* body (undefined when the options give none)
Request(endpoint, method, body) ==
    [endpoint |-> endpoint, method |-> method, body |-> body]

\* the options object a resource client passes to _request: the method and
\* the body it gives
RequestOptions(request) ==
    Obj([k \in {j \in {"method", "body"} : request[j] # Undefined} |-> request[k]])

\* an error message that ignores the body
HttpErrorMessageGeneric(data, status) == Str("HTTP " \o ToString(status))

\* the message of the error thrown for a non-2xx response:
\* data.error || `HTTP ${response.status}`
HttpErrorMessage(data, status) ==
    IF Truthy(Get(data, "error")) THEN Get(data, "error")
    ELSE Str("HTTP " \o ToString(status))

\* a try block that throws the error without the status and the body
TryBlockDropsStatus(o) ==
    IF o.rejects THEN Throw(o.error)
    ELSE LET parsed == JSONparse(o.body) IN
         IF ~parsed.ok THEN parsed
         ELSE LET data == parsed.v IN
              IF ~ResponseOk(o.status)
              THEN IF ~HasProps(data)
                   THEN Throw(PropTypeError(data, "error"))
                   ELSE Throw(PlayPathError(HttpErrorMessage(data, o.status), Null, Null))
              ELSE Ok(data)

\* the try block of _request once fetch has settled with outcome o
TryBlock(o) ==
    IF o.rejects THEN Throw(o.error)
    ELSE LET parsed == JSONparse(o.body) IN
         IF ~parsed.ok THEN parsed
         ELSE LET data == parsed.v IN
              IF ~ResponseOk(o.status)
              THEN IF ~HasProps(data)
                   THEN Throw(PropTypeError(data, "error"))
                   ELSE Throw(PlayPathError(HttpErrorMessage(data, o.status),
                                            Num(o.status), data))
              ELSE Ok(data)

\* a catch block that wraps whatever it catches
CatchBlockAlwaysWraps(error) == Throw(PlayPathError(error.message, Null, error))

\* the catch block of _request
CatchBlock(error) ==
    IF InstanceOfPlayPathError(error) THEN Throw(error)
    ELSE Throw(PlayPathError(error.message, Null, error))

\* what a call of _request settles with once fetch has settled with outcome o
RequestSettle(o) ==
    LET r == TryBlock(o) IN IF r.ok THEN r ELSE CatchBlock(r.v)

(***************************************************************************)
(* Resource clients.  Each operator is the synchronous part of the method: *)
(* Throw(e) when it throws before calling _request (the async method's     *)
(* promise is then rejected with e), Ok(request) when it reaches fetch.    *)
(***************************************************************************)
\* the payload object ragChat builds from params
ragChatPayload(params) ==
    LET keys == {"message"}
                \cup (IF Truthy(Get(params, "history")) THEN {"history"} ELSE {})
                \cup (IF Truthy(Get(params, "system_prompt"))
                      THEN {"system_prompt"} ELSE {})
    IN Obj([k \in keys |-> Get(params, k)])

\* a ragChat that rejects a missing message only, and sends an empty one
ragChatChecksUndefinedOnly(params) ==
    IF ~HasProps(params) THEN Throw(PropTypeError(params, "message"))
    ELSE IF Get(params, "message") = Undefined
    THEN Throw(PlayPathError(Str("Message is required"), Num(400), Null))
    ELSE Ok(Request("/api/rag/chat", Str("POST"), JSONstringify(ragChatPayload(params))))

\* ragChat up to its call of _request
ragChat(params) ==
    IF ~HasProps(params) THEN Throw(PropTypeError(params, "message"))
    ELSE IF ~Truthy(Get(params, "message"))
    THEN Throw(PlayPathError(Str("Message is required"), Num(400), Null))
    ELSE Ok(Request("/api/rag/chat", Str("POST"), JSONstringify(ragChatPayload(params))))

getItems == Ok(Request("/api/items", Undefined, Undefined))

getItem(id) == Ok(Request("/api/items/" \o ToStringJS(id), Undefined, Undefined))

\* a createItem that wants both a title and a text
createItemRequiresBoth(item) ==
    IF ~HasProps(item) THEN Throw(PropTypeError(item, "title"))
    ELSE IF ~Truthy(Get(item, "title")) \/ ~Truthy(Get(item, "text"))
    THEN Throw(PlayPathError(Str("Either title or text is required"), Num(400), Null))
    ELSE Ok(Request("/api/items", Str("POST"), JSONstringify(item)))

createItem(item) ==
    IF ~HasProps(item) THEN Throw(PropTypeError(item, "title"))
    ELSE IF ~Truthy(Get(item, "title")) /\ ~Truthy(Get(item, "text"))
    THEN Throw(PlayPathError(Str("Either title or text is required"), Num(400), Null))
    ELSE Ok(Request("/api/items", Str("POST"), JSONstringify(item)))

updateItem(id, item) ==
    Ok(Request("/api/items/" \o ToStringJS(id), Str("PUT"), JSONstringify(item)))

deleteItem(id) ==
    Ok(Request("/api/items/" \o ToStringJS(id), Str("DELETE"), Undefined))

(***************************************************************************)
(* Utility: formatChatHistory.                                             *)
(***************************************************************************)
\* a callback that looks for the text in content first
formatTurnContentFirst(msg) ==
    IF ~HasProps(msg) THEN Throw(PropTypeError(msg, "role"))
    ELSE Ok(Obj([role |-> Or(Get(msg, "role"), Str("user")),
                 text |-> Or(Or(Or(Get(msg, "content"), Get(msg, "message")),
                                Get(msg, "text")),
                             Str(""))]))

\* the callback of map: msg => ({ role: msg.role || 'user',
\*                              text: msg.text || msg.message || msg.content || '' })
formatTurn(msg) ==
    IF ~HasProps(msg) THEN Throw(PropTypeError(msg, "role"))
    ELSE Ok(Obj([role |-> Or(Get(msg, "role"), Str("user")),
                 text |-> Or(Or(Or(Get(msg, "text"), Get(msg, "message")),
                                Get(msg, "content")),
                             Str(""))]))

\* formatChatHistory(messages): messages.map(callback); map stops at the
\* first element on which the callback throws
formatChatHistory(messages) ==
    IF ~HasProps(messages) THEN Throw(PropTypeError(messages, "map"))
    ELSE IF messages.t # "array"
    THEN Throw(NativeError("TypeError", "messages.map is not a function"))
    ELSE LET failing == {i \in DOMAIN messages.a : ~formatTurn(messages.a[i]).ok} IN
         IF failing # {}
         THEN formatTurn(messages.a[CHOOSE i \in failing : \A j \in failing : i <= j])
         ELSE Ok(Arr([i \in DOMAIN messages.a |-> formatTurn(messages.a[i]).v]))

\* the methods class PlayPathSDK defines
PlayPathSDKMethods ==
    { "setApiKey", "setBaseUrl", "_request", "ragChat", "getItems", "getItem",
      "createItem", "updateItem", "deleteItem", "formatChatHistory",
      "createChatSession" }

\* sdk[name](...) up to the call: a name the class does not define reads
\* undefined, and calling undefined throws a TypeError
CallMethod(name) ==
    IF name \in PlayPathSDKMethods THEN Ok(Str(name))
    ELSE Throw(NativeError("TypeError", "sdk." \o name \o " is not a function"))

(***************************************************************************)
(* Chat session: the closure of createChatSession.  history is the array   *)
(* of the closure, a sequence of references into heap, where the turn      *)
(* objects live; systemPrompt is the closure's variable.                   *)
(***************************************************************************)
\* createChatSession(systemPrompt = null): undefined takes the default
createChatSession(systemPrompt) ==
    [history |-> <<>>,
     systemPrompt |-> IF systemPrompt = Undefined THEN Null ELSE systemPrompt]

\* [...history]: a new array holding the same turn objects
Spread(history) == history

\* the value of an array of references, as JSON.stringify or a reader sees it
Deref(hp, refs) == Arr([i \in DOMAIN refs |-> hp[refs[i]]])

\* the params object sendMessage builds
sendMessageParams(sess, hp, message) ==
    LET base == [message |-> message, history |-> Deref(hp, Spread(sess.history))]
    IN IF Truthy(sess.systemPrompt)
       THEN Obj([message |-> message, history |-> base.history,
                 system_prompt |-> sess.systemPrompt])
       ELSE Obj(base)

\* a turn object { role, text }
Turn(role, text) == Obj([role |-> Str(role), text |-> text])

\* a sendMessage that puts the exchange in front of the history
sendMessageResumePrepends(history, hp, message, r) ==
    IF ~r.ok \/ ~HasProps(r.v) THEN [history |-> history, heap |-> hp, result |-> r]
    ELSE LET hp2 == hp \o <<Turn("user", message),
                              Turn("assistant", Get(r.v, "reply"))>>
         IN [history |-> <<Len(hp) + 1, Len(hp) + 2>> \o history,
             heap |-> hp2, result |-> r]

\* sendMessage after its await of ragChat settled with r: the new history
\* and heap, and what the promise of sendMessage settles with
sendMessageResume(history, hp, message, r) ==
    IF ~r.ok THEN [history |-> history, heap |-> hp, result |-> r]
    ELSE LET response == r.v
             hp1 == Append(hp, Turn("user", message))
             h1 == Append(history, Len(hp1))
         IN IF ~HasProps(response)
            THEN [history |-> h1, heap |-> hp1,
                  result |-> Throw(PropTypeError(response, "reply"))]
            ELSE LET hp2 == Append(hp1, Turn("assistant", Get(response, "reply")))
                 IN [history |-> Append(h1, Len(hp2)), heap |-> hp2, result |-> r]

\* getHistory: () => [...history]
getHistory(sess) == Spread(sess.history)

\* a clearHistory that rebinds a copy and leaves the closure's array alone
clearHistoryRebinds(sess) == sess

\* clearHistory: history.length = 0
clearHistory(sess) == [sess EXCEPT !.history = <<>>]

\* a setSystemPrompt that also starts the conversation over
setSystemPromptResets(sess, prompt) ==
    [sess EXCEPT !.systemPrompt = prompt, !.history = <<>>]

\* a setSystemPrompt that takes effect only on a session without a prompt
setSystemPromptOnce(sess, prompt) ==
    IF Truthy(sess.systemPrompt) THEN sess ELSE [sess EXCEPT !.systemPrompt = prompt]

\* setSystemPrompt: systemPrompt = prompt
setSystemPrompt(sess, prompt) == [sess EXCEPT !.systemPrompt = prompt]

(***************************************************************************)
(* Inputs.                                                                 *)
(***************************************************************************)
\* the argument of sendMessage (undefined: called without one)
Messages == {Undefined, Str(""), Str("hi"), Str("yo")}

\* the argument of setSystemPrompt, and of createChatSession (which may
\* also be called without one)
Prompts == {Str(""), Str("coach")}

\* the params of a direct ragChat call
RagParams ==
    { Obj(<<>>),
      Obj([message |-> Str("")]),
      Obj([message |-> Str("hi")]),
      Obj([message |-> Str("hi"), history |-> Arr(<<>>), system_prompt |-> Str("")]),
      Obj([message |-> Str("hi"), history |-> Null, system_prompt |-> Null]),
      Obj([message |-> Str("hi"), history |-> Arr(<<Turn("user", Str("q"))>>),
           system_prompt |-> Str("coach")]) }

\* the config of new PlayPathSDK(config); undefined: constructed without one
Configs ==
    { Undefined,
      Obj([baseUrl |-> Str("https://playpath.io"), apiKey |-> Str("k1")]),
      Obj([apiKey |-> Str("k1"),
           headers |-> Obj("Content-Type" :> Str("text/plain")
                           @@ "X-Api-Key" :> Str("h"))]),
      Obj([headers |-> Obj("X-Trace" :> Str("t"))]) }

\* the argument of setApiKey, and of setBaseUrl
ApiKeys == {Str("k2"), Str("")}

BaseUrls == {Str("http://localhost:3000")}

\* the options of a direct call of _request
TransportOptions ==
    { Obj(<<>>),
      Obj([headers |-> Obj("X-Trace" :> Str("t"))]),
      Obj([method |-> Str("POST"),
           headers |-> Obj("Content-Type" :> Str("text/plain"))]) }

\* a message-like record holding the fields that are given (undefined: the
\* field is absent)
MessageRecord(role, text, message, content) ==
    LET given == [role |-> role, text |-> text, message |-> message,
                  content |-> content]
    IN Obj([k \in {j \in DOMAIN given : given[j] # Undefined} |-> given[k]])

FormatRecords ==
    { MessageRecord(role, text, message, content) :
        role \in {Undefined, Str(""), Str("assistant")},
        text \in {Undefined, Str(""), Str("t")},
        message \in {Undefined, Str("y")},
        content \in {Undefined, Str("x")} }

\* the elements of a list given to formatChatHistory
FormatElements == FormatRecords \cup {Undefined, Null, Str("s"), Num(7)}

\* the lists of n elements given to formatChatHistory
FormatLists(n) == {Arr(a) : a \in [1..n -> FormatElements]}

\* the params of ragChatStream
StreamParams == {Obj([message |-> Str("hi")])}

\* the item of createItem and updateItem
Items ==
    { Obj(<<>>),
      Obj([title |-> Str("")]),
      Obj([title |-> Str(""), text |-> Str("")]),
      Obj([title |-> Str("T"), url |-> Str("u")]),
      Obj([text |-> Str("x")]) }

\* the id of getItem, updateItem and deleteItem
Ids == {Str("missing"), Num(7)}

\* the messages the caller of the chat operation sends through a session,
\* and the items the caller of the resource clients passes to updateItem
ClientMessages == {Undefined, Str(""), Str("hi")}

ClientUpdates == {Obj(<<>>), Obj([text |-> Str("x")])}

\* the JSON bodies of POST /api/chat/start: the sessionId is absent, empty,
\* a string or a number
StartBodies ==
    { Obj(<<>>),
      Obj([sessionId |-> Str("")]),
      Obj([sessionId |-> Str("a")]),
      Obj([sessionId |-> Str("a"), systemPrompt |-> Str("coach")]),
      Obj([sessionId |-> Num(5)]) }

\* the JSON bodies of POST /api/chat/message
MessageBodies ==
    { Obj([message |-> Str("hi")]),
      Obj([sessionId |-> Str("a")]),
      Obj([sessionId |-> Str("a"), message |-> Str("")]),
      Obj([sessionId |-> Str("a"), message |-> Str("hi")]),
      Obj([sessionId |-> Num(5), message |-> Str("hi")]) }

\* the :sessionId of a path: the text of the path segment
PathSessionIds == {"a", "5"}

\* what the caller writes into a turn of a returned history
TamperWrites == {<<"role", Str("system")>>, <<"text", Str("edited")>>}

(***************************************************************************)
(* State.                                                                  *)
(***************************************************************************)
VARIABLES
    \* the SDK instance: [baseUrl, apiKey, headers]
    sdk,
    \* the sessions created so far: [history, systemPrompt] each
    sessions,
    \* the turn objects allocated so far; a reference is an index
    heap,
    \* the calls awaiting fetch: [id, op, session, arg, request, fetch];
    \* fetch is what fetch was called with, [url, config]
    pending,
    \* the number of async calls made so far; the next call's id is nCalls + 1
    nCalls,
    \* the array the caller got from its latest getHistory: [session, a], or None
    held,
    \* the number of writes the caller made through held
    nTamper,
    \* the sendMessage calls that resolved, in the order they resolved:
    \* [session, id, message, response]
    log,
    \* per session, whether clearHistory was ever called on it
    cleared,
    \* the latest step: [kind, op, session, arg, request, outcome, result];
    \* kind is "input" for a value the caller holds before an operation,
    \* "sync" for a synchronous operation, "issued" for an async call
    \* now pending on fetch, "settled" for an async call whose promise settled
    last,
    \* the Map of the example server: from the sessionId a session was
    \* started under to the session (its index in sessions)
    chatSessions

vars ==
    <<sdk, sessions, heap, pending, nCalls, held, nTamper, log, cleared, last,
      chatSessions>>

Event(kind, op, session, arg, request, outcome, result) ==
    [kind |-> kind, op |-> op, session |-> session, arg |-> arg,
     request |-> request, outcome |-> outcome, result |-> result]

\* the config the examples construct the SDK with
ExampleConfig == Obj([baseUrl |-> Str("https://playpath.io"), apiKey |-> Str("k1")])

\* everything but the instance, right after construction
InitRest ==
    /\ sessions = <<>>
    /\ heap = <<>>
    /\ pending = {}
    /\ nCalls = 0
    /\ held = None
    /\ nTamper = 0
    /\ log = <<>>
    /\ cleared = <<>>
    /\ chatSessions = <<>>
    /\ last = Event("init", "constructor", 0, None, None, None, None)

Init == sdk = constructor(ExampleConfig) /\ InitRest

\* an instance and a caller that holds a list to format, or none
\* (undefined: formatChatHistory is called without its argument)
InitFormat ==
    /\ sdk = constructor(ExampleConfig)
    /\ sessions = <<>> /\ heap = <<>> /\ cleared = <<>> /\ log = <<>>
    /\ pending = {} /\ nCalls = 0
    /\ held = None /\ nTamper = 0
    /\ chatSessions = <<>>
    /\ \E n \in 0..MaxMessages :
          \E messages \in FormatLists(n) \cup {Undefined} :
              last = Event("input", "formatChatHistory", 0, messages, None, None, None)

\* an instance constructed with any of the configs
InitConfig == (\E config \in Configs : sdk = constructor(config)) /\ InitRest

SessionIds == DOMAIN sessions

(***************************************************************************)
(* Configuration setters.                                                  *)
(***************************************************************************)
SetApiKey(apiKey) ==
    /\ sdk' = setApiKey(sdk, apiKey)
    /\ last' = Event("sync", "setApiKey", 0, apiKey, None, None, None)
    /\ UNCHANGED <<sessions, heap, pending, nCalls, held, nTamper, log, cleared, chatSessions>>

SetBaseUrl(baseUrl) ==
    /\ sdk' = setBaseUrl(sdk, baseUrl)
    /\ last' = Event("sync", "setBaseUrl", 0, baseUrl, None, None, None)
    /\ UNCHANGED <<sessions, heap, pending, nCalls, held, nTamper, log, cleared, chatSessions>>

(***************************************************************************)
(* Synchronous session operations.                                         *)
(***************************************************************************)
CreateChatSession(p) ==
    /\ Len(sessions) < MaxSessions
    /\ sessions' = Append(sessions, createChatSession(p))
    /\ cleared' = Append(cleared, FALSE)
    /\ last' = Event("sync", "createChatSession", Len(sessions) + 1, p, None, None, None)
    /\ UNCHANGED <<sdk, heap, pending, nCalls, held, nTamper, log, chatSessions>>

GetHistory(s) ==
    /\ held' = [session |-> s, a |-> getHistory(sessions[s])]
    /\ last' = Event("sync", "getHistory", s, None, None, None, None)
    /\ UNCHANGED <<sdk, sessions, heap, pending, nCalls, nTamper, log, cleared, chatSessions>>

\* a clearHistory on a history array that all sessions share
ClearHistoryShared(s) ==
    /\ sessions' = [t \in DOMAIN sessions |-> clearHistory(sessions[t])]
    /\ cleared' = [t \in DOMAIN cleared |-> TRUE]
    /\ last' = Event("sync", "clearHistory", s, None, None, None, None)
    /\ UNCHANGED <<sdk, heap, pending, nCalls, held, nTamper, log, chatSessions>>

\* a clearHistory that abandons the sends of the session still in flight
ClearHistoryCancels(s) ==
    /\ sessions' = [sessions EXCEPT ![s] = clearHistory(sessions[s])]
    /\ cleared' = [cleared EXCEPT ![s] = TRUE]
    /\ pending' = {c \in pending : c.session # s}
    /\ last' = Event("sync", "clearHistory", s, None, None, None, None)
    /\ UNCHANGED <<sdk, heap, nCalls, held, nTamper, log, chatSessions>>

ClearHistory(s) ==
    /\ sessions' = [sessions EXCEPT ![s] = clearHistory(sessions[s])]
    /\ cleared' = [cleared EXCEPT ![s] = TRUE]
    /\ last' = Event("sync", "clearHistory", s, None, None, None, None)
    /\ UNCHANGED <<sdk, heap, pending, nCalls, held, nTamper, log, chatSessions>>

SetSystemPrompt(s, p) ==
    /\ sessions' = [sessions EXCEPT ![s] = setSystemPrompt(sessions[s], p)]
    /\ last' = Event("sync", "setSystemPrompt", s, p, None, None, None)
    /\ UNCHANGED <<sdk, heap, pending, nCalls, held, nTamper, log, cleared, chatSessions>>

(***************************************************************************)
(* What a caller can do with the array getHistory returned.                *)
(***************************************************************************)
\* held.push({ role: 'user', text: 'injected' })
HeldPush ==
    /\ held # None
    /\ nTamper < MaxTamper
    /\ heap' = Append(heap, Turn("user", Str("injected")))
    /\ held' = [held EXCEPT !.a = Append(@, Len(heap) + 1)]
    /\ nTamper' = nTamper + 1
    /\ last' = Event("sync", "held.push", held.session, None, None, None, None)
    /\ UNCHANGED <<sdk, sessions, pending, nCalls, log, cleared, chatSessions>>

\* held.pop()
HeldPop ==
    /\ held # None
    /\ nTamper < MaxTamper
    /\ held.a # <<>>
    /\ held' = [held EXCEPT !.a = SubSeq(@, 1, Len(@) - 1)]
    /\ nTamper' = nTamper + 1
    /\ last' = Event("sync", "held.pop", held.session, None, None, None, None)
    /\ UNCHANGED <<sdk, sessions, heap, pending, nCalls, log, cleared, chatSessions>>

\* the indexes a held array can have: two turns a call, and the caller's pushes
HeldIndexes == 1..(2 * MaxCalls + MaxTamper)

\* held[i][k] = v
HeldWrite(i, k, v) ==
    /\ held # None
    /\ nTamper < MaxTamper
    /\ i \in DOMAIN held.a
    /\ heap' = [heap EXCEPT ![held.a[i]] =
                    Obj([j \in DOMAIN @.f \cup {k} |-> IF j = k THEN v ELSE @.f[j]])]
    /\ nTamper' = nTamper + 1
    /\ last' = Event("sync", "held.write", held.session, Str(k), None, None, None)
    /\ UNCHANGED <<sdk, sessions, pending, nCalls, held, log, cleared, chatSessions>>

(***************************************************************************)
(* Async operations: the call, up to its await of fetch.                   *)
(***************************************************************************)
\* a call whose synchronous part ended in r: rejected at once when r is a
\* throw, pending on fetch when r is a request
Call(op, s, arg, r) ==
    /\ nCalls < MaxCalls
    /\ nCalls' = nCalls + 1
    /\ IF r.ok
       THEN /\ pending' = pending \cup
                    {[id |-> nCalls + 1, op |-> op, session |-> s, arg |-> arg,
                      request |-> r.v,
                      fetch |-> fetchArguments(sdk, r.v.endpoint, RequestOptions(r.v))]}
            /\ last' = Event("issued", op, s, arg, r.v, None, None)
       ELSE /\ pending' = pending
            /\ last' = Event("settled", op, s, arg, None, None, r)
    /\ UNCHANGED <<sdk, sessions, heap, held, nTamper, log, cleared, chatSessions>>

\* a direct call of _request(endpoint, options), up to its await of fetch
TransportRequest(endpoint, options) ==
    /\ nCalls < MaxCalls
    /\ nCalls' = nCalls + 1
    /\ LET request == Request(endpoint, Get(options, "method"), Get(options, "body")) IN
       /\ pending' = pending \cup
               {[id |-> nCalls + 1, op |-> "_request", session |-> 0, arg |-> options,
                 request |-> request,
                 fetch |-> fetchArguments(sdk, endpoint, options)]}
       /\ last' = Event("issued", "_request", 0, options, request, None, None)
    /\ UNCHANGED <<sdk, sessions, heap, held, nTamper, log, cleared, chatSessions>>

SendMessage(s, message) ==
    Call("sendMessage", s, message, ragChat(sendMessageParams(sessions[s], heap, message)))

RagChat(params) == Call("ragChat", 0, params, ragChat(params))

GetItems == Call("getItems", 0, None, getItems)

GetItem(id) == Call("getItem", 0, id, getItem(id))

CreateItem(item) == Call("createItem", 0, item, createItem(item))

UpdateItem(id, item) == Call("updateItem", 0, Arr(<<id, item>>), updateItem(id, item))

DeleteItem(id) == Call("deleteItem", 0, id, deleteItem(id))

\* the caller formats the list it holds
FormatChatHistory ==
    /\ last.kind = "input"
    /\ last' = Event("sync", "formatChatHistory", 0, last.arg, None, None,
                     formatChatHistory(last.arg))
    /\ UNCHANGED <<sdk, sessions, heap, pending, nCalls, held, nTamper, log, cleared, chatSessions>>

\* sdk.ragChatStream(params), a method the README and the type declarations
\* document
RagChatStream(params) ==
    /\ last' = Event("sync", "ragChatStream", 0, params, None, None,
                     CallMethod("ragChatStream"))
    /\ UNCHANGED <<sdk, sessions, heap, pending, nCalls, held, nTamper, log, cleared, chatSessions>>

(***************************************************************************)
(* Async operations: fetch settles with outcome o for the pending call c   *)
(* and the call's continuation runs to its end.                            *)
(***************************************************************************)
\* a transport that fetches again when the attempt failed
FetchSettlesRetries(c, o) ==
    /\ c \in pending
    /\ IF RequestSettle(o).ok
       THEN /\ pending' = pending \ {c}
            /\ last' = Event("settled", c.op, c.session, c.arg, c.request, o,
                             RequestSettle(o))
       ELSE /\ pending' = pending
            /\ last' = Event("issued", c.op, c.session, c.arg, c.request, None, None)
    /\ UNCHANGED <<sdk, sessions, heap, nCalls, held, nTamper, log, cleared, chatSessions>>

\* a continuation that awaits once more after fetch has settled, and so
\* never ends
FetchSettlesAwaitsAgain(c, o) ==
    /\ c \in pending
    /\ pending' = pending
    /\ last' = Event("issued", c.op, c.session, c.arg, c.request, o, None)
    /\ UNCHANGED <<sdk, sessions, heap, nCalls, held, nTamper, log, cleared, chatSessions>>

FetchSettles(c, o) ==
    /\ c \in pending
    /\ pending' = pending \ {c}
    /\ LET r == RequestSettle(o) IN
       IF c.op = "sendMessage"
       THEN LET k == sendMessageResume(sessions[c.session].history, heap, c.arg, r) IN
            /\ sessions' = [sessions EXCEPT ![c.session].history = k.history]
            /\ heap' = k.heap
            /\ log' = IF k.result.ok
                      THEN Append(log, [session |-> c.session, id |-> c.id,
                                        message |-> c.arg, response |-> k.result.v])
                      ELSE log
            /\ last' = Event("settled", c.op, c.session, c.arg, c.request, o, k.result)
       ELSE /\ last' = Event("settled", c.op, c.session, c.arg, c.request, o, r)
            /\ UNCHANGED <<sessions, heap, log>>
    /\ UNCHANGED <<sdk, nCalls, held, nTamper, cleared, chatSessions>>

\* the caller of the resource clients awaits a call before the next one
\* while MaxInFlight calls are pending
MayCall == Cardinality(pending) < MaxInFlight

(***************************************************************************)
(* The Express example server: its routes over the Map chatSessions.  A    *)
(* Map finds a key by value for strings and numbers, so "5" is not 5.      *)
(***************************************************************************)
\* res.status(status).json(body)
Response(status, body) == [status |-> status, body |-> body]

\* the config the server constructs its SDK with
ServerConfig ==
    Obj([baseUrl |-> Str("http://localhost:3000"), apiKey |-> Str("your-api-key-here")])

InitServer == sdk = constructor(ServerConfig) /\ InitRest

\* a route that answers without touching a session or the SDK
Answers(route, arg, response) ==
    /\ last' = Event("sync", route, 0, arg, None, None, response)
    /\ UNCHANGED <<sdk, sessions, heap, pending, nCalls, held, nTamper, log, cleared,
                   chatSessions>>

NotFound == Response(404, Obj([error |-> Str("Chat session not found")]))

\* POST /api/chat/start: createChatSession(systemPrompt || null) does not
\* throw, so the catch branch is never taken
ChatStart(body) ==
    LET sessionId == Get(body, "sessionId") IN
    IF ~Truthy(sessionId)
    THEN Answers("POST /api/chat/start", body,
                 Response(400, Obj([error |-> Str("sessionId is required")])))
    ELSE /\ Len(sessions) < MaxSessions
         /\ sessions' = Append(sessions,
                               createChatSession(Or(Get(body, "systemPrompt"), Null)))
         /\ cleared' = Append(cleared, FALSE)
         /\ chatSessions' =
               [k \in DOMAIN chatSessions \cup {sessionId} |->
                   IF k = sessionId THEN Len(sessions) + 1 ELSE chatSessions[k]]
         /\ last' = Event("sync", "POST /api/chat/start", Len(sessions) + 1, body,
                          None, None,
                          Response(200, Obj([message |-> Str("Chat session started successfully"),
                                             sessionId |-> sessionId])))
         /\ UNCHANGED <<sdk, heap, pending, nCalls, held, nTamper, log>>

\* POST /api/chat/message, up to its await of sendMessage; the message is
\* not empty when sendMessage is called, so ragChat reaches fetch
ChatMessage(body) ==
    LET sessionId == Get(body, "sessionId")
        message == Get(body, "message")
    IN IF ~Truthy(sessionId) \/ ~Truthy(message)
       THEN Answers("POST /api/chat/message", body,
                    Response(400, Obj([error |-> Str("sessionId and message are required")])))
       ELSE IF sessionId \notin DOMAIN chatSessions
       THEN Answers("POST /api/chat/message", body, NotFound)
       ELSE LET s == chatSessions[sessionId]
                r == ragChat(sendMessageParams(sessions[s], heap, message))
            IN /\ nCalls < MaxCalls /\ MayCall
               /\ nCalls' = nCalls + 1
               /\ pending' = pending \cup
                      {[id |-> nCalls + 1, op |-> "POST /api/chat/message",
                        session |-> s, arg |-> body, request |-> r.v,
                        fetch |-> fetchArguments(sdk, r.v.endpoint, RequestOptions(r.v))]}
               /\ last' = Event("issued", "POST /api/chat/message", s, body, r.v,
                                None, None)
               /\ UNCHANGED <<sdk, sessions, heap, held, nTamper, log, cleared,
                              chatSessions>>

\* what POST /api/chat/message answers once sendMessage settled with r
messageResponse(body, r) ==
    IF r.ok
    THEN Response(200, JSONstringify(Obj([reply |-> Get(r.v, "reply"),
                                          usage |-> Get(r.v, "usage"),
                                          limit |-> Get(r.v, "limit"),
                                          sessionId |-> Get(body, "sessionId")])))
    ELSE Response(500, Obj([error |-> r.v.message]))

\* POST /api/chat/message from the settling of fetch on: sendMessage
\* resumes, and the route answers with the reply or with the error
ChatMessageResponds(c, o) ==
    /\ c \in pending
    /\ c.op = "POST /api/chat/message"
    /\ pending' = pending \ {c}
    /\ LET message == Get(c.arg, "message")
           k == sendMessageResume(sessions[c.session].history, heap, message,
                                  RequestSettle(o))
       IN /\ sessions' = [sessions EXCEPT ![c.session].history = k.history]
          /\ heap' = k.heap
          /\ log' = IF k.result.ok
                    THEN Append(log, [session |-> c.session, id |-> c.id,
                                      message |-> message, response |-> k.result.v])
                    ELSE log
          /\ last' = Event("settled", c.op, c.session, c.arg, c.request, o,
                           messageResponse(c.arg, k.result))
    /\ UNCHANGED <<sdk, nCalls, held, nTamper, cleared, chatSessions>>

\* GET /api/chat/history/:sessionId
ChatGetHistory(sessionId) ==
    IF Str(sessionId) \notin DOMAIN chatSessions
    THEN Answers("GET /api/chat/history", Str(sessionId), NotFound)
    ELSE LET s == chatSessions[Str(sessionId)] IN
         /\ last' = Event("sync", "GET /api/chat/history", s, Str(sessionId), None, None,
                          Response(200,
                              JSONstringify(Obj([history |-> Deref(heap, getHistory(sessions[s])),
                                                 sessionId |-> Str(sessionId)]))))
         /\ UNCHANGED <<sdk, sessions, heap, pending, nCalls, held, nTamper, log,
                        cleared, chatSessions>>

\* DELETE /api/chat/history/:sessionId
ChatClearHistory(sessionId) ==
    IF Str(sessionId) \notin DOMAIN chatSessions
    THEN Answers("DELETE /api/chat/history", Str(sessionId), NotFound)
    ELSE LET s == chatSessions[Str(sessionId)] IN
         /\ sessions' = [sessions EXCEPT ![s] = clearHistory(sessions[s])]
         /\ cleared' = [cleared EXCEPT ![s] = TRUE]
         /\ last' = Event("sync", "DELETE /api/chat/history", s, Str(sessionId), None,
                          None, Response(200, Obj([message |-> Str("Chat history cleared")])))
         /\ UNCHANGED <<sdk, heap, pending, nCalls, held, nTamper, log, chatSessions>>

\* DELETE /api/chat/:sessionId
ChatEnd(sessionId) ==
    IF Str(sessionId) \notin DOMAIN chatSessions
    THEN Answers("DELETE /api/chat", Str(sessionId), NotFound)
    ELSE /\ chatSessions' = [k \in DOMAIN chatSessions \ {Str(sessionId)} |-> chatSessions[k]]
         /\ last' = Event("sync", "DELETE /api/chat", chatSessions[Str(sessionId)],
                          Str(sessionId), None, None,
                          Response(200, Obj([message |-> Str("Chat session ended")])))
         /\ UNCHANGED <<sdk, sessions, heap, pending, nCalls, held, nTamper, log, cleared>>

\* what the upstream API answers the server: a reply, or an HTTP error
ServerOutcomes ==
    { FetchResponse(200, "{\"reply\":\"hello\",\"usage\":3}"),
      FetchResponse(404, "{\"error\":\"not found\"}") }

\* the chat routes of the server and the transport under its sends
NextServer ==
    \/ \E body \in StartBodies : ChatStart(body)
    \/ \E body \in MessageBodies : ChatMessage(body)
    \/ \E sessionId \in PathSessionIds : ChatGetHistory(sessionId)
    \/ \E sessionId \in PathSessionIds : ChatClearHistory(sessionId)
    \/ \E sessionId \in PathSessionIds : ChatEnd(sessionId)
    \/ \E c \in pending, o \in ServerOutcomes : ChatMessageResponds(c, o)

\* a chat session: its operations and the transport under sendMessage
NextSession ==
    \/ \E p \in Prompts \cup {Undefined} : CreateChatSession(p)
    \/ \E s \in SessionIds : ClearHistory(s)
    \/ \E s \in SessionIds, p \in Prompts : SetSystemPrompt(s, p)
    \/ \E s \in SessionIds, m \in Messages : SendMessage(s, m)
    \/ \E c \in pending, o \in SessionOutcomes : FetchSettles(c, o)

\* a chat session and a caller that keeps the arrays getHistory returns
NextCaller ==
    \/ \E p \in Prompts \cup {Undefined} : CreateChatSession(p)
    \/ \E s \in SessionIds : GetHistory(s)
    \/ HeldPush
    \/ HeldPop
    \/ \E i \in HeldIndexes, w \in TamperWrites : HeldWrite(i, w[1], w[2])
    \/ \E s \in SessionIds, m \in Messages : SendMessage(s, m)
    \/ \E c \in pending, o \in SessionOutcomes : FetchSettles(c, o)

\* the operations that reach the transport, under every outcome of fetch;
\* ragChat and createItem are also called without their argument
NextClients ==
    \/ \E params \in RagParams \cup {Undefined} : MayCall /\ RagChat(params)
    \/ \E params \in StreamParams : RagChatStream(params)
    \/ MayCall /\ GetItems
    \/ \E id \in Ids : MayCall /\ GetItem(id)
    \/ \E item \in Items \cup {Undefined} : MayCall /\ CreateItem(item)
    \/ \E id \in Ids, item \in ClientUpdates : MayCall /\ UpdateItem(id, item)
    \/ \E id \in Ids : MayCall /\ DeleteItem(id)
    \/ \E c \in pending, o \in Outcomes : FetchSettles(c, o)

\* the chat operation, called directly and through sessions
NextChat ==
    \/ CreateChatSession(Undefined)
    \/ \E s \in SessionIds, m \in ClientMessages : MayCall /\ SendMessage(s, m)
    \/ \E params \in RagParams : MayCall /\ RagChat(params)
    \/ \E c \in pending, o \in Outcomes : FetchSettles(c, o)

\* an instance whose configuration changes between its requests
NextConfig ==
    \/ \E apiKey \in ApiKeys : SetApiKey(apiKey)
    \/ \E baseUrl \in BaseUrls : SetBaseUrl(baseUrl)
    \/ \E options \in TransportOptions : MayCall /\ TransportRequest("/api/items", options)
    \/ \E params \in RagParams : MayCall /\ RagChat(params)
    \/ MayCall /\ GetItems
    \/ \E id \in Ids : MayCall /\ DeleteItem(id)
    \/ \E c \in pending, o \in SessionOutcomes : FetchSettles(c, o)

\* the history formatter on every list of message-like records
NextFormat == FormatChatHistory

\* the item operations and the chat operation on an instance whose base
\* address changes between the calls
NextItems ==
    \/ \E baseUrl \in BaseUrls : SetBaseUrl(baseUrl)
    \/ \E params \in RagParams : MayCall /\ RagChat(params)
    \/ MayCall /\ GetItems
    \/ \E id \in Ids : MayCall /\ GetItem(id)
    \/ \E item \in Items : MayCall /\ CreateItem(item)
    \/ \E id \in Ids, item \in ClientUpdates : MayCall /\ UpdateItem(id, item)
    \/ \E id \in Ids : MayCall /\ DeleteItem(id)
    \/ \E c \in pending, o \in SessionOutcomes : FetchSettles(c, o)

\* one conversation: a single session, its operations interleaved with the
\* transport under its sends
NextConversation ==
    \/ \E p \in Prompts \cup {Undefined} : sessions = <<>> /\ CreateChatSession(p)
    \/ \E s \in SessionIds : GetHistory(s)
    \/ \E s \in SessionIds : ClearHistory(s)
    \/ \E s \in SessionIds, p \in Prompts : SetSystemPrompt(s, p)
    \/ \E s \in SessionIds, m \in ClientMessages : SendMessage(s, m)
    \/ \E c \in pending, o \in SessionOutcomes : FetchSettles(c, o)

Next ==
    \/ NextSession \/ NextCaller \/ NextClients \/ NextChat \/ NextConfig
    \/ NextFormat \/ NextItems \/ NextConversation \/ NextServer

\* every operation of the SDK, its sessions and their callers
Spec == Init /\ [][Next]_vars

SpecSession == Init /\ [][NextSession]_vars

SpecCaller == Init /\ [][NextCaller]_vars

SpecClients == Init /\ [][NextClients]_vars

SpecChat == Init /\ [][NextChat]_vars

SpecConfig == InitConfig /\ [][NextConfig]_vars

SpecFormat == InitFormat /\ [][NextFormat]_vars

SpecItems == Init /\ [][NextItems]_vars

SpecConversation == Init /\ [][NextConversation]_vars

SpecServer == InitServer /\ [][NextServer]_vars

\* the transport delivers: for every call awaiting fetch, fetch eventually
\* settles, with a response or with a failure
TransportDelivers ==
    \A i \in 1..MaxCalls :
        WF_vars(\E c \in pending, o \in Outcomes : c.id = i /\ FetchSettles(c, o))

\* the operations that reach the transport, over a transport that delivers
SpecClientsFair == SpecClients /\ TransportDelivers

(***************************************************************************)
(* Properties.                                                             *)
(***************************************************************************)
\* the turns of session s as a reader of getHistory sees them
HistoryOf(s) == Deref(heap, getHistory(sessions[s])).a

\* a step in which the sendMessage call c settles on fetch outcome o
SendSettles(c, o) == c.op = "sendMessage" /\ FetchSettles(c, o)

\* C1: every sendMessage with a non-empty message either resolves with the
\* reply and appends exactly two turns, a user turn carrying the message and
\* then an assistant turn carrying the reply text, or rejects and leaves the
\* history as it was; it never appends one turn of the two.
C1_SendMessageAtomic ==
    [][\A c \in pending, o \in Outcomes :
          SendSettles(c, o) =>
              \/ /\ last'.result.ok
                 /\ HistoryOf(c.session)' =
                        HistoryOf(c.session) \o
                            <<Turn("user", c.arg),
                              Turn("assistant", Get(last'.result.v, "reply"))>>
              \/ /\ ~last'.result.ok
                 /\ HistoryOf(c.session)' = HistoryOf(c.session)]_vars


\* the entries of S ordered by call id
RECURSIVE InCallOrder(_)
InCallOrder(S) ==
    IF S = {} THEN <<>>
    ELSE LET e == CHOOSE x \in S : \A y \in S : x.id <= y.id
         IN <<e>> \o InCallOrder(S \ {e})

\* the turns of the exchanges es: a user turn and an assistant turn each
RECURSIVE Exchanges(_)
Exchanges(es) ==
    IF es = <<>> THEN <<>>
    ELSE <<Turn("user", Head(es).message),
           Turn("assistant", Get(Head(es).response, "reply"))>> \o Exchanges(Tail(es))

\* the sendMessage calls of session s that resolved
Resolved(s) == {log[i] : i \in {j \in DOMAIN log : log[j].session = s}}

\* C2: on a session that was never cleared, after N sendMessage calls have
\* resolved (and any number have failed) the history has exactly 2N turns,
\* alternating user and assistant, the k-th pair holding the message and
\* the reply of the k-th resolved call in call order.
C2_HistoryIsResolvedCallsInCallOrder ==
    \A s \in SessionIds :
        ~cleared[s] => HistoryOf(s) = Exchanges(InCallOrder(Resolved(s)))

\* a step in which the caller changes the array getHistory returned, or a
\* turn in it
CallerTampers ==
    \/ HeldPush
    \/ HeldPop
    \/ \E i \in HeldIndexes, w \in TamperWrites : HeldWrite(i, w[1], w[2])

\* what sendMessage(m) on session s would do now: reject, or send a request
NextSend(s, m) == ragChat(sendMessageParams(sessions[s], heap, m))

\* C3: nothing the caller does to the value getHistory returned (adding or
\* removing elements, changing the role or text of a turn) changes what a
\* later getHistory returns or what history a later sendMessage sends.
C3_ReturnedHistoryIsACopy ==
    [][CallerTampers =>
          \A s \in SessionIds :
              /\ HistoryOf(s)' = HistoryOf(s)
              /\ \A m \in Messages : NextSend(s, m)' = NextSend(s, m)]_vars

\* C4: right after clearHistory, getHistory returns the empty sequence,
\* whatever had accumulated before.
C4_ClearThenGetIsEmpty ==
    (last.kind = "sync" /\ last.op = "clearHistory") => HistoryOf(last.session) = <<>>

\* clearHistory has just run on a session in which an exchange had completed
C4_Witness ==
    /\ last.kind = "sync" /\ last.op = "clearHistory"
    /\ Resolved(last.session) # {}
    /\ HistoryOf(last.session) = <<>>

\* the params sendMessage(m) on session s would pass to ragChat now: the
\* message, the history and, when the session has one, the system_prompt
ParamsOf(s, m) == sendMessageParams(sessions[s], heap, m)

\* the system_prompt sendMessage(m) on session s would send now (undefined
\* when it sends none)
PromptSent(s, m) == Get(ParamsOf(s, m), "system_prompt")

\* C5: setSystemPrompt leaves the history as it was, turn for turn, and
\* clearHistory leaves the system prompt as it was, so the sendMessage after
\* a clearHistory sends the system_prompt it would have sent before it.
C5_MutatorsTouchOwnField ==
    [][/\ \A s \in SessionIds, p \in Prompts :
             SetSystemPrompt(s, p) => HistoryOf(s)' = HistoryOf(s)
       /\ \A s \in SessionIds :
             ClearHistory(s) =>
                 /\ sessions'[s].systemPrompt = sessions[s].systemPrompt
                 /\ \A m \in Messages : PromptSent(s, m)' = PromptSent(s, m)]_vars

\* a sendMessage issued on a cleared session, after an exchange had completed
\* and the history was cleared, carries the session's prompt
C5_Witness ==
    /\ last.kind = "issued" /\ last.op = "sendMessage"
    /\ cleared[last.session]
    /\ Resolved(last.session) # {}
    /\ HistoryOf(last.session) = <<>>
    /\ sessions[last.session].systemPrompt = Str("coach")
    /\ Get(last.request.body, "system_prompt") = Str("coach")

\* absent, or the empty string
AbsentOrEmpty(v) == v = Undefined \/ v = Str("")

\* the latest call failed validation: it was rejected with a status-400
\* PlayPathError without a request being made
FailedFast ==
    /\ last.kind = "settled"
    /\ last.request = None /\ last.outcome = None
    /\ ~last.result.ok
    /\ InstanceOfPlayPathError(last.result.v)
    /\ last.result.v.status = Num(400)

\* C6: ragChat, and so sendMessage, with an absent or empty message fails
\* with an error of status 400 before any network call: no request is made
\* and, for sendMessage, the history is unchanged.
C6_EmptyMessageFailsFast ==
    [][nCalls' # nCalls =>
          /\ \A p \in RagParams :
                (AbsentOrEmpty(Get(p, "message")) /\ RagChat(p)) =>
                    FailedFast' /\ pending' = pending
          /\ \A s \in SessionIds, m \in Messages :
                (AbsentOrEmpty(m) /\ SendMessage(s, m)) =>
                    FailedFast' /\ pending' = pending /\ HistoryOf(s)' = HistoryOf(s)]_vars

\* sendMessage('') has just failed fast on a session that holds an exchange
C6_Witness ==
    /\ FailedFast
    /\ last.op = "sendMessage" /\ last.arg = Str("")
    /\ HistoryOf(last.session) # <<>>

\* this step issues exactly one request, a POST /api/items carrying item
PostsItem(item) ==
    \E c \in pending' :
        /\ c \notin pending
        /\ pending' = pending \cup {c}
        /\ c.request = Request("/api/items", Str("POST"), item)

\* C7 as claimed: createItem on an item that has neither a title nor a text
\* fails with status 400 before any network call, and an item that has a
\* title or a text is passed on as exactly one POST /api/items.
C7_CreateItemValidation ==
    [][nCalls' # nCalls =>
          \A item \in Items :
              CreateItem(item) =>
                  IF "title" \notin DOMAIN item.f /\ "text" \notin DOMAIN item.f
                  THEN FailedFast' /\ pending' = pending
                  ELSE PostsItem(item)]_vars

\* C7 as amended: createItem on an item whose title and text are both
\* absent or empty fails with status 400 before any network call, and an
\* item with a non-empty title or a non-empty text is passed on as exactly
\* one POST /api/items.
C7_CreateItemValidationNonEmpty ==
    [][nCalls' # nCalls =>
          \A item \in Items :
              CreateItem(item) =>
                  IF AbsentOrEmpty(Get(item, "title")) /\ AbsentOrEmpty(Get(item, "text"))
                  THEN FailedFast' /\ pending' = pending
                  ELSE PostsItem(item)]_vars

\* createItem({ title: '' }) has just failed fast
C7_Witness ==
    /\ FailedFast
    /\ last.op = "createItem" /\ last.arg = Obj([title |-> Str("")])

\* the latest call settled on a response with a non-2xx status
HttpFailure ==
    /\ last.kind = "settled"
    /\ last.outcome # None
    /\ ~last.outcome.rejects
    /\ ~ResponseOk(last.outcome.status)

HttpFailureObject ==
    /\ HttpFailure
    /\ JSONparse(last.outcome.body).ok
    /\ JSONparse(last.outcome.body).v.t = "object"

\* C9 as claimed: for a non-2xx response whose body is a JSON object the
\* error's message is the body's error field when present, else 'HTTP '
\* and the status, and the error's data is the parsed body.
C9_MessageIsErrorField ==
    HttpFailureObject =>
        LET data == JSONparse(last.outcome.body).v IN
        /\ last.result.v.message =
              IF "error" \in DOMAIN data.f THEN data.f.error
              ELSE Str("HTTP " \o ToString(last.outcome.status))
        /\ last.result.v.data = data

\* C9 as amended: the message is the body's error field when that field is
\* a non-empty string, and 'HTTP ' and the status when the field is absent
\* or is the empty string; the error's data is the parsed body.
C9_MessageIsNonEmptyErrorField ==
    HttpFailureObject =>
        LET data == JSONparse(last.outcome.body).v IN
        /\ last.result.v.message =
              IF "error" \in DOMAIN data.f /\ data.f.error # Str("") THEN data.f.error
              ELSE Str("HTTP " \o ToString(last.outcome.status))
        /\ last.result.v.data = data

\* getItem('missing') answered 404 {"error":"not found"} has just failed
\* with status 404 and message "not found"
C9_Witness ==
    /\ HttpFailureObject
    /\ last.op = "getItem" /\ last.arg = Str("missing")
    /\ last.outcome = FetchResponse(404, "{\"error\":\"not found\"}")
    /\ last.result.v.status = Num(404)
    /\ last.result.v.message = Str("not found")

\* the latest call was rejected with the failure e wrapped: e's message, a
\* null status, and e itself as data
Wrapped(e) ==
    /\ ~last.result.ok
    /\ last.result.v = [t |-> "error", name |-> "PlayPathError",
                        message |-> e.message, status |-> Null, data |-> e]

\* C10: when no response is obtained or the body cannot be parsed, the call
\* fails with the underlying failure's message, a null status and the
\* failure as data; the error made for a non-2xx response keeps its status
\* and its body and is not wrapped again.
C10_TransportFailureWrapped ==
    (last.kind = "settled" /\ last.outcome # None) =>
        IF last.outcome.rejects THEN Wrapped(last.outcome.error)
        ELSE LET parsed == JSONparse(last.outcome.body) IN
             /\ ~parsed.ok => Wrapped(parsed.v)
             /\ (parsed.ok /\ HasProps(parsed.v) /\ ~ResponseOk(last.outcome.status)) =>
                    /\ ~last.result.ok
                    /\ InstanceOfPlayPathError(last.result.v)
                    /\ last.result.v.status = Num(last.outcome.status)
                    /\ last.result.v.data = parsed.v

\* getItems has just failed because fetch obtained no response
C10_Witness ==
    /\ last.kind = "settled" /\ last.op = "getItems"
    /\ last.outcome = FetchRejects
    /\ Wrapped(FetchRejects.error)

\* C11: every failure of a public operation, whatever the caller passes (a
\* missing params or item argument included), is a PlayPathError carrying
\* message, status and data; no other kind of error escapes.
C11_EveryFailureIsPlayPathError ==
    (last.kind = "settled" /\ ~last.result.ok) =>
        /\ InstanceOfPlayPathError(last.result.v)
        /\ {"message", "status", "data"} \subseteq DOMAIN last.result.v

\* the caller provided v: it is not absent, null or empty
Provided(v) == v \notin {Undefined, Null, Str(""), Arr(<<>>)}

\* C12: the body of a chat request has exactly the fields the caller
\* provided: message always, history and system_prompt only when provided;
\* an absent, null or empty optional field is left out, also in the first
\* sendMessage of a fresh session.
C12_BodyHasExactlyProvidedFields ==
    \A c \in pending :
        LET body == c.request.body IN
        /\ c.op = "ragChat" =>
              /\ DOMAIN body.f =
                    {"message"} \cup
                    {k \in {"history", "system_prompt"} : Provided(Get(c.arg, k))}
              /\ \A k \in DOMAIN body.f : body.f[k] = JSONstringify(Get(c.arg, k))
        /\ c.op = "sendMessage" =>
              /\ body.f.message = c.arg
              /\ \A k \in DOMAIN body.f : Provided(body.f[k])

\* C13: on a 2xx response ragChat, and sendMessage, resolve with exactly
\* the parsed response body.
C13_ReturnsParsedBody ==
    ( /\ last.kind = "settled" /\ last.op \in {"ragChat", "sendMessage"}
      /\ last.outcome # None
      /\ ~last.outcome.rejects
      /\ ResponseOk(last.outcome.status)
      /\ JSONparse(last.outcome.body).ok )
    => last.result = Ok(JSONparse(last.outcome.body).v)

\* the headers fetch was given for the call c
SentHeaders(c) == c.fetch.config.headers

\* the headers the caller of c passed for this call alone
PerCallHeaders(c) ==
    IF c.op = "_request" THEN PropsOf(Get(c.arg, "headers")) ELSE <<>>

\* C14: the headers of a request are the instance's headers merged with the
\* per-call headers: a per-call header replaces the default of the same
\* key, and every other default header is still sent.
C14_HeadersAreMerged ==
    [][\A c \in pending' \ pending :
          LET merged == SentHeaders(c).f IN
          /\ DOMAIN merged = DOMAIN sdk.headers \cup DOMAIN PerCallHeaders(c)
          /\ \A k \in DOMAIN merged :
                merged[k] = IF k \in DOMAIN PerCallHeaders(c)
                            THEN PerCallHeaders(c)[k]
                            ELSE sdk.headers[k]]_vars

FormattedRecords ==
    /\ last.kind = "sync" /\ last.op = "formatChatHistory"
    /\ last.arg.t = "array"
    /\ \A i \in DOMAIN last.arg.a : last.arg.a[i].t = "object"

Present(msg, k) == k \in DOMAIN msg.f

PresentNonEmpty(msg, k) == k \in DOMAIN msg.f /\ msg.f[k] # Str("")

\* the first present field of the record msg among text, message, content
FirstPresent(msg) ==
    IF Present(msg, "text") THEN msg.f.text
    ELSE IF Present(msg, "message") THEN msg.f.message
    ELSE IF Present(msg, "content") THEN msg.f.content
    ELSE Str("")

\* the first field of msg that is present and not empty among them
FirstNonEmpty(msg) ==
    IF PresentNonEmpty(msg, "text") THEN msg.f.text
    ELSE IF PresentNonEmpty(msg, "message") THEN msg.f.message
    ELSE IF PresentNonEmpty(msg, "content") THEN msg.f.content
    ELSE Str("")

\* C16 as claimed: formatChatHistory maps the records one-to-one and in
\* order; a turn's role is the record's role, or 'user' when the role is
\* absent, and its text is the first present field among text, message and
\* content, or '' when none is present.
C16_FormatMapsRecords ==
    FormattedRecords =>
        /\ last.result.ok
        /\ DOMAIN last.result.v.a = DOMAIN last.arg.a
        /\ \A i \in DOMAIN last.arg.a :
              LET msg == last.arg.a[i] IN
              last.result.v.a[i] =
                  Obj([role |-> IF Present(msg, "role") THEN msg.f.role ELSE Str("user"),
                       text |-> FirstPresent(msg)])

\* C16 as amended: a turn's role is the record's role, or 'user' when the
\* role is absent or empty, and its text is the first field that is present
\* and not empty among text, message and content, or '' when there is none.
C16_FormatMapsNonEmptyFields ==
    FormattedRecords =>
        /\ last.result.ok
        /\ DOMAIN last.result.v.a = DOMAIN last.arg.a
        /\ \A i \in DOMAIN last.arg.a :
              LET msg == last.arg.a[i] IN
              last.result.v.a[i] =
                  Obj([role |-> IF PresentNonEmpty(msg, "role") THEN msg.f.role
                                ELSE Str("user"),
                       text |-> FirstNonEmpty(msg)])

\* formatChatHistory([{content: 'x'}, {role: 'assistant', message: 'y'}])
\* has returned [{role: 'user', text: 'x'}, {role: 'assistant', text: 'y'}]
C16_Witness ==
    /\ last.kind = "sync" /\ last.op = "formatChatHistory"
    /\ last.arg = Arr(<<Obj([content |-> Str("x")]),
                        Obj([role |-> Str("assistant"), message |-> Str("y")])>>)
    /\ last.result = Ok(Arr(<<Turn("user", Str("x")), Turn("assistant", Str("y"))>>))

\* C17: formatChatHistory returns a result for an input of any shape, a
\* list holding null or non-object elements and a missing list included.
C17_FormatIsTotal ==
    (last.kind = "sync" /\ last.op = "formatChatHistory") => last.result.ok

\* C18: sessions are independent: a sendMessage (its call or its
\* completion), a clearHistory or a setSystemPrompt on one session changes
\* neither the history another session returns nor the history and prompt
\* another session sends, under every interleaving.  (last' names the
\* session the step operates on.)
C18_SessionsIndependent ==
    [][\A t \in SessionIds :
          last'.session # t =>
              /\ HistoryOf(t)' = HistoryOf(t)
              /\ \A m \in Messages : ParamsOf(t, m)' = ParamsOf(t, m)]_vars

\* session 1 has just been cleared while session 2 keeps its exchange
C18_Witness ==
    /\ Len(sessions) = 2
    /\ last.kind = "sync" /\ last.op = "clearHistory" /\ last.session = 1
    /\ HistoryOf(1) = <<>>
    /\ Len(HistoryOf(2)) = 2

\* the history the request of the call c carries
Snapshot(c) == Get(c.request.body, "history")

\* C19: concurrent sendMessage calls on a session are not serialized: a
\* sendMessage issued while an earlier one is pending carries the same
\* history snapshot as the earlier one (whose exchange it omits), and a
\* send that succeeds appends its pair when its response arrives, so a
\* history whose pairs are not in call order is reachable.
C19_ConcurrentSendsNotSerialized ==
    [][/\ \A c \in pending, d \in pending' \ pending :
             ( /\ c.op = "sendMessage" /\ d.op = "sendMessage"
               /\ d.session = c.session
               /\ Snapshot(c) = JSONstringify(Arr(HistoryOf(c.session))) )
             => Snapshot(d) = Snapshot(c)
       /\ \A c \in pending \ pending' :
             (c.op = "sendMessage" /\ last'.result.ok) =>
                 HistoryOf(c.session)' =
                     HistoryOf(c.session) \o
                         <<Turn("user", c.arg),
                           Turn("assistant", Get(last'.result.v, "reply"))>>]_vars

\* two sends of a session resolved in the order opposite to their calls and
\* the history holds their pairs in arrival order, not in call order
C19_Witness ==
    \E s \in SessionIds :
        /\ Len(log) = 2
        /\ log[1].session = s /\ log[2].session = s
        /\ log[1].id > log[2].id
        /\ HistoryOf(s) = Exchanges(log)
        /\ HistoryOf(s) # Exchanges(InCallOrder(Resolved(s)))

\* C20: the SDK offers ragChatStream(params), which returns the connection
\* it opens and appends no turn to any session's history.
C20_RagChatStreamReturnsConnection ==
    [][\A params \in StreamParams :
          RagChatStream(params) =>
              /\ last'.result.ok
              /\ \A s \in SessionIds : HistoryOf(s)' = HistoryOf(s)]_vars

\* the method fetch uses for the call c: the method of its config, GET when
\* the config gives none
MethodOf(c) == Or(Get(Obj(c.fetch.config), "method"), Str("GET"))

\* the body fetch sends for the call c (undefined: none)
BodyOf(c) == Get(Obj(c.fetch.config), "body")

\* the call c made one fetch of method on the base address current at the
\* call followed by path, with body
Fetches(c, method, path, body) ==
    /\ c.fetch.url = Str(ToStringJS(sdk.baseUrl) \o path)
    /\ MethodOf(c) = Str(method)
    /\ BodyOf(c) = body

\* the requests the step issues
Issued == pending' \ pending

\* C21: each item operation issues one request to its fixed method/path
\* pair: getItems GET /api/items, getItem(id) GET /api/items/{id},
\* createItem POST /api/items with the item as body, updateItem(id, item)
\* PUT /api/items/{id} with the item as body, deleteItem(id) DELETE
\* /api/items/{id}; the chat operation POST /api/rag/chat; the path is
\* appended to the base address current at the time of the call.
C21_FixedMethodAndPath ==
    [][nCalls' # nCalls =>
         /\ Cardinality(Issued) <= 1
         /\ last'.op \in {"getItems", "getItem", "updateItem", "deleteItem"}
                => Cardinality(Issued) = 1
         /\ \A c \in Issued :
              CASE c.op = "getItems" -> Fetches(c, "GET", "/api/items", Undefined)
                [] c.op = "getItem" ->
                     Fetches(c, "GET", "/api/items/" \o ToStringJS(c.arg), Undefined)
                [] c.op = "createItem" ->
                     Fetches(c, "POST", "/api/items", JSONstringify(c.arg))
                [] c.op = "updateItem" ->
                     Fetches(c, "PUT", "/api/items/" \o ToStringJS(c.arg.a[1]),
                             JSONstringify(c.arg.a[2]))
                [] c.op = "deleteItem" ->
                     Fetches(c, "DELETE", "/api/items/" \o ToStringJS(c.arg), Undefined)
                [] c.op = "ragChat" ->
                     /\ c.fetch.url = Str(ToStringJS(sdk.baseUrl) \o "/api/rag/chat")
                     /\ MethodOf(c) = Str("POST")
                [] OTHER -> TRUE]_vars

\* an updateItem was issued after the base address was changed, and went to
\* the new address
C21_Witness ==
    /\ last.kind = "issued" /\ last.op = "updateItem"
    /\ sdk.baseUrl = Str("http://localhost:3000")
    /\ \E c \in pending :
          /\ c.fetch.url = Str("http://localhost:3000/api/items/7")
          /\ MethodOf(c) = Str("PUT")
          /\ BodyOf(c) = Obj([text |-> Str("x")])

\* C22: every operation makes at most one transport attempt: a step issues
\* no more requests than it calls operations, a call that fails validation
\* issues none, and when the attempt ends in an HTTP failure or a transport
\* failure the call fails in that step, without a further request.
C22_SingleAttempt ==
    [][/\ Cardinality(Issued) <= nCalls' - nCalls
       /\ FailedFast' => Issued = {}
       /\ \A c \in pending, o \in Outcomes :
             (FetchSettles(c, o) /\ (o.rejects \/ ~ResponseOk(o.status))) =>
                 /\ last'.kind = "settled" /\ ~last'.result.ok
                 /\ pending' = pending \ {c}]_vars

\* a call has failed on a 404 response and nothing is pending
C22_Witness ==
    /\ last.kind = "settled" /\ last.outcome # None
    /\ ~last.outcome.rejects /\ last.outcome.status = 404
    /\ ~last.result.ok
    /\ nCalls = 1 /\ pending = {}

\* the sendMessage call issued by the latest step
LatestSend == CHOOSE c \in pending : c.id = nCalls

\* the two turns of the resolved exchange e
TurnsOf(e) == {Turn("user", e.message), Turn("assistant", Get(e.response, "reply"))}

\* C23: the history carried by the request of a sendMessage equals the
\* session's turn sequence at the moment of the call, which holds only
\* turns of earlier completed exchanges (and so not the message being
\* sent), and the request carries system_prompt exactly when the session's
\* current prompt is non-empty.
C23_RequestCarriesSnapshot ==
    (last.kind = "issued" /\ last.op = "sendMessage") =>
        LET c == LatestSend
            s == c.session
        IN /\ Snapshot(c) = JSONstringify(Arr(HistoryOf(s)))
           /\ \A i \in DOMAIN HistoryOf(s) :
                 \E e \in Resolved(s) : HistoryOf(s)[i] \in TurnsOf(e)
           /\ ("system_prompt" \in DOMAIN c.request.body.f)
                 <=> ~AbsentOrEmpty(sessions[s].systemPrompt)
                     /\ sessions[s].systemPrompt # Null

\* the system_prompt a request carries when the session's prompt is p
\* (undefined: none)
PromptFor(p) == IF Truthy(p) THEN p ELSE Undefined

\* C24: setSystemPrompt(p) determines the prompt of every sendMessage issued
\* after it and before the next setSystemPrompt, and of none issued before
\* it: from the setSystemPrompt on, a sendMessage would send p; no other
\* step changes what a sendMessage would send; a sendMessage that is issued
\* sends the prompt that is current; a request already issued stays as it
\* was issued; and the turns in the history are not changed.
C24_PromptOfLaterSendsOnly ==
    [][/\ \A s \in SessionIds, p \in Prompts :
             SetSystemPrompt(s, p) =>
                 /\ \A m \in Messages : PromptSent(s, m)' = PromptFor(p)
                 /\ pending' = pending
                 /\ HistoryOf(s)' = HistoryOf(s)
       /\ \A s \in SessionIds :
             ~(last'.kind = "sync" /\ last'.op = "setSystemPrompt" /\ last'.session = s)
                 => \A m \in Messages : PromptSent(s, m)' = PromptSent(s, m)
       /\ \A d \in Issued :
             d.op = "sendMessage" =>
                 Get(d.request.body, "system_prompt") = PromptSent(d.session, d.arg)
       /\ \A c \in pending, d \in pending' : d.id = c.id => d = c]_vars

\* a send issued under "coach" is still pending, carrying "coach", after
\* the prompt was set to the empty one and a later send went out without
\* a system_prompt
C24_Witness ==
    /\ last.kind = "issued" /\ last.op = "sendMessage"
    /\ sessions[last.session].systemPrompt = Str("")
    /\ \E c \in pending, d \in pending :
          /\ c.session = last.session /\ d.session = last.session
          /\ c.id < d.id
          /\ Get(c.request.body, "system_prompt") = Str("coach")
          /\ Get(d.request.body, "system_prompt") = Undefined

\* what the chat operation under the latest settled sendMessage settled
\* with: its validation failure when it made no request, else what _request
\* settled with
ChatSettled ==
    IF last.outcome = None THEN ragChat(Obj([message |-> last.arg]))
    ELSE RequestSettle(last.outcome)

\* C25: a failed sendMessage rejects with the very error value the chat
\* operation produced (same message, status and data), whether a
\* validation, an HTTP or a transport failure.
C25_SendMessagePropagatesError ==
    (last.kind = "settled" /\ last.op = "sendMessage" /\ ~last.result.ok) =>
        /\ ~ChatSettled.ok
        /\ last.result.v = ChatSettled.v

\* the sequence a is a prefix of the sequence b
IsPrefix(a, b) == Len(a) <= Len(b) /\ SubSeq(b, 1, Len(a)) = a

\* the step is a clearHistory on session s
ClearsHistory(s) ==
    last'.kind = "sync" /\ last'.op = "clearHistory" /\ last'.session = s

\* C26: a session's history is append-only except for clearHistory: across
\* any step that is not a clearHistory the previous history is a prefix of
\* the new one, and the only steps that change the history at all are a
\* sendMessage that succeeds and a clearHistory.
C26_HistoryAppendOnly ==
    [][\A s \in SessionIds :
          /\ ~ClearsHistory(s) => IsPrefix(HistoryOf(s), HistoryOf(s)')
          /\ HistoryOf(s)' # HistoryOf(s) =>
                \/ ClearsHistory(s)
                \/ /\ last'.kind = "settled" /\ last'.op = "sendMessage"
                   /\ last'.session = s /\ last'.result.ok]_vars

\* the history h is made of whole exchanges of session s: it has even
\* length, a user turn at each even position and an assistant turn at each
\* odd one (counting from 0), and each user turn is followed by the reply
\* of the exchange that resolved with it
WholeExchanges(s, h) ==
    /\ Len(h) % 2 = 0
    /\ \A k \in 1..(Len(h) \div 2) :
          /\ Get(h[2 * k - 1], "role") = Str("user")
          /\ Get(h[2 * k], "role") = Str("assistant")
          /\ \E e \in Resolved(s) :
                /\ h[2 * k - 1] = Turn("user", e.message)
                /\ h[2 * k] = Turn("assistant", Get(e.response, "reply"))

\* C27: under every interleaving of sendMessage, clearHistory and
\* getHistory calls on one session, every observable history is made of
\* whole exchanges: even length, user and assistant turns alternating, each
\* user turn immediately followed by the assistant reply of its exchange.
C27_HistoryIsWholeExchanges ==
    /\ \A s \in SessionIds : WholeExchanges(s, HistoryOf(s))
    /\ held # None => WholeExchanges(held.session, Deref(heap, held.a).a)

\* C28: clearHistory does not cancel a sendMessage that is awaiting its
\* response: the clearHistory leaves the send in flight, and when the send
\* later succeeds its two turns are appended to the cleared history, which
\* is then not empty although no sendMessage was issued after the clear.
C28_ClearDoesNotCancelSend ==
    [][/\ \A s \in SessionIds : ClearsHistory(s) => pending' = pending
       /\ \A c \in pending \ pending' :
             ( /\ c.op = "sendMessage" /\ cleared[c.session]
               /\ HistoryOf(c.session) = <<>>
               /\ last'.result.ok )
             => HistoryOf(c.session)' =
                    <<Turn("user", c.arg),
                      Turn("assistant", Get(last'.result.v, "reply"))>>]_vars

\* the second send of a session was issued with the first exchange in its
\* history and has resolved; the history holds its pair alone, so the
\* history was cleared while it was in flight, and no send came after
C28_Witness ==
    /\ last.kind = "settled" /\ last.op = "sendMessage" /\ last.result.ok
    /\ nCalls = 2 /\ pending = {} /\ Len(log) = 2
    /\ cleared[last.session]
    /\ Len(Get(last.request.body, "history").a) = 2
    /\ HistoryOf(last.session) =
           <<Turn("user", last.arg), Turn("assistant", Get(last.result.v, "reply"))>>

\* the call with id i is awaiting fetch
Awaiting(i) == \E c \in pending : c.id = i

\* C29: every operation that reaches the transport eventually settles,
\* provided the transport eventually delivers a response or a failure, and
\* it settles only after that outcome: no other step ends a pending call,
\* as the SDK imposes no timeout.
C29_SettlesWhenTransportDelivers ==
    /\ \A i \in 1..MaxCalls : Awaiting(i) ~> ~Awaiting(i)
    /\ [][\A c \in pending \ pending' :
             /\ last'.kind = "settled" /\ last'.request = c.request
             /\ last'.outcome \in Outcomes
             /\ last'.result = RequestSettle(last'.outcome)]_vars

\* a getItems call has settled on a failure of the transport
C29_Witness ==
    /\ last.kind = "settled" /\ last.op = "getItems"
    /\ last.outcome = FetchRejects
    /\ Wrapped(FetchRejects.error)
    /\ pending = {}

\* the keys of the server's Map that the sessionId text n names: a
\* sessionId reads the same in a path and in a body, whatever its JSON type
StartedAs(n) == {k \in DOMAIN chatSessions : ToStringJS(k) = n}

\* the session of the most recent start among those n names
MostRecent(n) ==
    LET S == {chatSessions[k] : k \in StartedAs(n)}
    IN CHOOSE s \in S : \A t \in S : t <= s

\* the routes that operate on a started session
SessionRoutes ==
    {"POST /api/chat/message", "GET /api/chat/history", "DELETE /api/chat/history"}

\* the sessionId the request of event e names (undefined: none)
SessionIdOf(e) ==
    IF e.op = "POST /api/chat/message" THEN Get(e.arg, "sessionId") ELSE e.arg

\* the step serves a new request to one of the session routes, naming a
\* sessionId
ServesSessionRoute ==
    /\ last'.op \in SessionRoutes
    /\ last'.kind \in {"sync", "issued"}
    /\ SessionIdOf(last') # Undefined

\* C30: in the Express example server, a send-message, get-history or
\* clear-history request naming a sessionId that was never started, or was
\* started and then ended, is answered 404 'Chat session not found' and
\* invokes no session operation and no upstream chat call; after a start
\* for a sessionId, requests for it reach the session created by the most
\* recent start, whose history begins empty.
C30_ServerSessionLookup ==
    [][/\ ServesSessionRoute =>
            LET n == ToStringJS(SessionIdOf(last')) IN
            IF StartedAs(n) = {}
            THEN /\ last'.result = NotFound
                 /\ UNCHANGED <<sessions, heap, pending, nCalls>>
            ELSE (last'.op = "POST /api/chat/message" => Truthy(Get(last'.arg, "message")))
                    => last'.session = MostRecent(n)
       /\ (last'.op = "POST /api/chat/start" /\ last'.session # 0 /\ last' # last) =>
            /\ last'.session \notin DOMAIN sessions
            /\ sessions'[last'.session].history = <<>>
            /\ \E k \in DOMAIN chatSessions' :
                  /\ ToStringJS(k) = ToStringJS(Get(last'.arg, "sessionId"))
                  /\ chatSessions'[k] = last'.session]_vars

====
